---- MODULE Spec2Model ----
(***************************************************************************)
(* Model of internal/handlers/workers/message_handlers.go: the handler      *)
(* returned by CreateUserMessageHandler, processUserMessage, the response   *)
(* transformer (transformGoogleAgentMessages and its extract helpers) and   *)
(* applyWhatsAppFormattingToMessages.                                       *)
(*                                                                         *)
(* Go strings that the code inspects character by character (the message    *)
(* text, the transcript) are sequences of one-character strings; accented   *)
(* letters are written as the letter followed by an apostrophe.  Go         *)
(* interface{} values are tagged records: [t |-> "nil"], [t |-> "string",   *)
(* s |-> ...], [t |-> "int" / "float64", n |-> ...], [t |-> "list", l |->   *)
(* <<...>>], [t |-> "map", m |-> <function from keys to values>].           *)
(***************************************************************************)
EXTENDS Integers, Sequences, FiniteSets, TLC

VARIABLES
    deps,                \* MessageHandlerDependencies: which optional dependencies are non-nil
    pc,                  \* position of the handler for the delivery in hand
    delivery,            \* the amqp.Delivery in hand: [bodyOk, msg]
    queueMsg,            \* models.QueueMessage produced by json.Unmarshal
    ctxCanceled,         \* the per-delivery context has been canceled
    message,             \* processUserMessage's local `message` (the resolved text)
    transcriptText,      \* processUserMessage's local `transcriptText`
    threadID,            \* processUserMessage's local `threadID`
    transformedMessages, \* processUserMessage's local `transformedMessages`
    response,            \* handler local `response`
    err,                 \* handler local `err` ("nil" or the error text)
    calls,               \* capability calls issued for the delivery in hand, in order
    writes,              \* store writes issued for the delivery in hand, in order
    statusLog,           \* per message id, the task-status writes issued so far
    ret,                 \* what the handler returned for the delivery in hand
    delivered,           \* number of deliveries handed to the handler so far
    fnArg,               \* argument of the pure function under study
    fnRes                \* its result

vars == <<deps, pc, delivery, queueMsg, ctxCanceled, message, transcriptText, threadID,
          transformedMessages, response, err, calls, writes, statusLog, ret,
          delivered, fnArg, fnRes>>

(***************************************************************************)
(* Bounds                                                                  *)
(***************************************************************************)
\* longest message sequence handed to the content formatter gate on its own
MaxMsgs == 2

\* deliveries handed to the handler, one after the other, each with a fresh message id
MaxDeliveries == 1

(***************************************************************************)
(* interface{} values                                                      *)
(***************************************************************************)
Nil == [t |-> "nil"]
Str(s) == [t |-> "string", s |-> s]
IntVal(n) == [t |-> "int", n |-> n]
Float64(n) == [t |-> "float64", n |-> n]
List(l) == [t |-> "list", l |-> l]
Map(m) == [t |-> "map", m |-> m]

\* m[k] on a Go map: the zero value (nil interface) when the key is missing
Get(m, k) == IF k \in DOMAIN m THEN m[k] ELSE Nil

\* m with key k set to v (k may be new)
Put(m, k, v) == [x \in DOMAIN m \cup {k} |-> IF x = k THEN v ELSE m[x]]

EmptyMap == [x \in {} |-> Nil]

(***************************************************************************)
(* strings as character sequences                                          *)
(***************************************************************************)
Upper == <<"A", "B", "C", "D", "E", "F", "G", "H", "I", "J", "K", "L", "M",
           "N", "O", "P", "Q", "R", "S", "T", "U", "V", "W", "X", "Y", "Z", "A'">>
Lower == <<"a", "b", "c", "d", "e", "f", "g", "h", "i", "j", "k", "l", "m",
           "n", "o", "p", "q", "r", "s", "t", "u", "v", "w", "x", "y", "z", "a'">>

\* the lower-case letter of each upper-case letter
LowerOf == [c \in {Upper[i] : i \in 1..Len(Upper)} |->
               Lower[CHOOSE i \in 1..Len(Upper) : Upper[i] = c]]

ToLowerChar(c) == IF c \in DOMAIN LowerOf THEN LowerOf[c] ELSE c

\* strings.ToLower
ToLower(s) == [i \in 1..Len(s) |-> ToLowerChar(s[i])]

\* strings.HasSuffix
HasSuffix(s, suffix) ==
    /\ Len(suffix) <= Len(s)
    /\ SubSeq(s, Len(s) - Len(suffix) + 1, Len(s)) = suffix

IsSpace(c) == c \in {" ", "\t", "\n", "\r"}

RECURSIVE TrimLeft(_)
TrimLeft(s) == IF s # <<>> /\ IsSpace(Head(s)) THEN TrimLeft(Tail(s)) ELSE s

RECURSIVE TrimRight(_)
TrimRight(s) ==
    IF s # <<>> /\ IsSpace(s[Len(s)]) THEN TrimRight(SubSeq(s, 1, Len(s) - 1)) ELSE s

\* strings.TrimSpace
TrimSpace(s) == TrimRight(TrimLeft(s))

(***************************************************************************)
(* Audio gate                                                              *)
(***************************************************************************)
audioExtensions ==
    << <<".", "m", "p", "3">>, <<".", "w", "a", "v">>, <<".", "m", "4", "a">>,
       <<".", "a", "a", "c">>, <<".", "o", "g", "g">>, <<".", "f", "l", "a", "c">>,
       <<".", "w", "m", "a">> >>

isAudioURL(url) ==
    \E i \in 1..Len(audioExtensions) : HasSuffix(ToLower(url), audioExtensions[i])

\* the literal "Ajuda"
Fallback == <<"A", "j", "u", "d", "a">>

\* the literal "Audio sem conteudo reconhecivel" (with its accents)
NoContentSentinel ==
    <<"A'", "u", "d", "i", "o", " ", "s", "e", "m", " ",
      "c", "o", "n", "t", "e", "u'", "d", "o", " ",
      "r", "e", "c", "o", "n", "h", "e", "c", "i'", "v", "e", "l">>

\* UsefulTranscript without the whitespace-only test
UsefulTranscript_NoTrim(transcript) ==
    /\ transcript # <<>>
    /\ transcript # NoContentSentinel

\* line 231: the transcript is used only when this holds
UsefulTranscript(transcript) ==
    /\ transcript # <<>>
    /\ TrimSpace(transcript) # <<>>
    /\ transcript # NoContentSentinel

(***************************************************************************)
(* Response transformer                                                    *)
(***************************************************************************)
\* msgMap["response_metadata"].(map[string]interface{}) and a key lookup in it
MetadataField(msgMap, key) ==
    LET responseMetadata == Get(msgMap, "response_metadata") IN
    IF responseMetadata.t = "map" /\ key \in DOMAIN responseMetadata.m
    THEN responseMetadata.m[key]
    ELSE Nil

extractModelName(msgMap) == MetadataField(msgMap, "model_name")

extractFinishReason(msgMap) == MetadataField(msgMap, "finish_reason")

extractAvgLogprobs(msgMap) == MetadataField(msgMap, "avg_logprobs")

\* `if x, ok := v.(int); ok { result[key] = float64(x) }`
ConvertIfInt(result, key, v) ==
    IF v.t = "int" THEN Put(result, key, Float64(v.n)) ELSE result

\* the nested lookups of lines 480-494
NestedIfInt(result, key, usageMap, outer, inner) ==
    LET details == Get(usageMap, outer) IN
    IF details.t = "map" /\ inner \in DOMAIN details.m
    THEN ConvertIfInt(result, key, details.m[inner])
    ELSE result

\* the conversions of lines 497-511
TopIfInt(result, key, usageMap, src) ==
    IF src \in DOMAIN usageMap THEN ConvertIfInt(result, key, usageMap[src]) ELSE result

extractUsageMetadata(msgMap) ==
    LET responseMetadata == Get(msgMap, "response_metadata") IN
    IF responseMetadata.t = "map" /\ "usage_metadata" \in DOMAIN responseMetadata.m
       /\ responseMetadata.m["usage_metadata"].t = "map"
    THEN LET usageMap == responseMetadata.m["usage_metadata"].m
             r0 == [prompt_token_count     |-> Get(usageMap, "input_tokens"),
                    candidates_token_count |-> Get(usageMap, "output_tokens"),
                    total_token_count      |-> Get(usageMap, "total_tokens")]
             r1 == NestedIfInt(r0, "thoughts_token_count", usageMap,
                               "output_token_details", "reasoning")
             r2 == NestedIfInt(r1, "cached_content_token_count", usageMap,
                               "input_token_details", "cache_read")
             r3 == TopIfInt(r2, "prompt_token_count", usageMap, "input_tokens")
             r4 == TopIfInt(r3, "candidates_token_count", usageMap, "output_tokens")
             r5 == TopIfInt(r4, "total_token_count", usageMap, "total_tokens")
         IN  Map(r5)
    ELSE Nil

\* toolCalls, exists := msgMap["tool_calls"].([]interface{}); exists && len(toolCalls) > 0
HasToolCalls(msgMap) ==
    LET toolCalls == Get(msgMap, "tool_calls") IN
    toolCalls.t = "list" /\ Len(toolCalls.l) > 0

mapMessageType(msgMap) ==
    LET msgType == Get(msgMap, "type") IN
    IF msgType.t # "string" THEN "user_message"
    ELSE IF msgType.s = "human" THEN "user_message"
    ELSE IF msgType.s = "ai"
         THEN IF HasToolCalls(msgMap) THEN "tool_call_message" ELSE "assistant_message"
    ELSE IF msgType.s = "tool" THEN "tool_return_message"
    ELSE "user_message"

\* lines 377-393: the fixed field set
BaseFields(msgMap, stepID) ==
    [id                      |-> Get(msgMap, "id"),
     date                    |-> Nil,
     session_id              |-> Nil,
     time_since_last_message |-> Nil,
     name                    |-> Get(msgMap, "name"),
     otid                    |-> Get(msgMap, "id"),
     sender_id               |-> Nil,
     step_id                 |-> Str("step-" \o stepID),
     is_err                  |-> Nil,
     model_name              |-> extractModelName(msgMap),
     finish_reason           |-> extractFinishReason(msgMap),
     avg_logprobs            |-> extractAvgLogprobs(msgMap),
     usage_metadata          |-> extractUsageMetadata(msgMap),
     message_type            |-> Str(mapMessageType(msgMap)),
     content                 |-> Get(msgMap, "content")]

\* lines 396-405
AddToolCall(t, msgMap) ==
    LET toolCalls == Get(msgMap, "tool_calls") IN
    IF toolCalls.t = "list" /\ Len(toolCalls.l) > 0 /\ toolCalls.l[1].t = "map"
    THEN LET toolCall == toolCalls.l[1].m IN
         Put(t, "tool_call", Map([name         |-> Get(toolCall, "name"),
                                  arguments    |-> Get(toolCall, "args"),
                                  tool_call_id |-> Get(toolCall, "id")]))
    ELSE t

\* lines 406-416
AddToolReturn(t, msgMap) ==
    IF "name" \in DOMAIN msgMap
    THEN LET t1 == Put(t, "tool_return", Get(msgMap, "content"))
             t2 == Put(t1, "status", Str("success"))
             t3 == Put(t2, "tool_call_id", Get(msgMap, "tool_call_id"))
             t4 == Put(t3, "stdout", Nil)
             t5 == Put(t4, "stderr", Nil)
         IN  Put(t5, "name", msgMap["name"])
    ELSE t

\* the body of the loop of lines 370-419 for one object entry
TransformEntry(msgMap, stepID) ==
    LET t == BaseFields(msgMap, stepID)
        msgType == mapMessageType(msgMap)
    IN  IF msgType = "tool_call_message" THEN Map(AddToolCall(t, msgMap))
        ELSE IF msgType = "tool_return_message" THEN Map(AddToolReturn(t, msgMap))
        ELSE Map(t)

\* the loop of lines 370-419; stepIDs[i] is what generateStepID returns for entry i
RECURSIVE TransformList(_, _)
TransformList(messagesList, stepIDs) ==
    IF messagesList = <<>> THEN <<>>
    ELSE LET msgData == Head(messagesList)
             rest == TransformList(Tail(messagesList), Tail(stepIDs))
         IN  IF msgData.t = "map"
             THEN <<TransformEntry(msgData.m, Head(stepIDs))>> \o rest
             ELSE rest

\* lines 422-434
UsageStats(stepCount, now) ==
    Map([message_type      |-> Str("usage_statistics"),
         completion_tokens |-> IntVal(0),
         prompt_tokens     |-> IntVal(0),
         total_tokens      |-> IntVal(0),
         step_count        |-> IntVal(stepCount),
         steps_messages    |-> Nil,
         run_ids           |-> Nil,
         agent_id          |-> Str(""),
         processed_at      |-> Str(now),
         status            |-> Str("done"),
         model_names       |-> List(<<>>)])

\* the type switch of lines 360-368: the list to walk, for a non-nil value
MessagesList(messagesData) ==
    IF messagesData.t = "list" THEN messagesData.l ELSE <<messagesData>>

\* stepIDs has one id per entry of the list walked; now is time.Now() formatted
transformGoogleAgentMessages(messagesData, stepIDs, now) ==
    IF messagesData.t = "nil" THEN <<>>
    ELSE LET transformed == TransformList(MessagesList(messagesData), stepIDs)
         IN  Append(transformed, UsageStats(Len(transformed), now))

(***************************************************************************)
(* Content formatter gate                                                  *)
(***************************************************************************)
\* content, exists := msgMap["content"].(string); exists && content != ""
Formattable(msgInterface) ==
    /\ msgInterface.t = "map"
    /\ Get(msgInterface.m, "content").t = "string"
    /\ Get(msgInterface.m, "content").s # ""

\* FormatMessage without the fallback of lines 569-572
FormatMessage_NoFallback(msgInterface, outcome) ==
    IF Formattable(msgInterface)
    THEN Map(Put(msgInterface.m, "content", Str(outcome.text)))
    ELSE msgInterface

\* lines 556-578; outcomes[i] is what FormatForWhatsApp returns for messages[i]
FormatMessage(msgInterface, outcome) ==
    IF Formattable(msgInterface)
    THEN LET content == msgInterface.m["content"].s
             formattedContent == IF outcome.err THEN content ELSE outcome.text
         IN  Map(Put(msgInterface.m, "content", Str(formattedContent)))
    ELSE msgInterface

applyWhatsAppFormattingToMessages(messageFormatter, messages, outcomes) ==
    IF ~messageFormatter THEN messages
    ELSE [i \in 1..Len(messages) |-> FormatMessage(messages[i], outcomes[i])]

(***************************************************************************)
(* Serialization of the artifact                                           *)
(***************************************************************************)
\* json.Marshal of an interface{} value: int and float64 both become JSON numbers
RECURSIVE MarshalValue(_)
MarshalValue(v) ==
    IF v.t \in {"int", "float64"} THEN [t |-> "number", n |-> v.n]
    ELSE IF v.t = "list" THEN [t |-> "list", l |-> [i \in 1..Len(v.l) |-> MarshalValue(v.l[i])]]
    ELSE IF v.t = "map" THEN [t |-> "map", m |-> [k \in DOMAIN v.m |-> MarshalValue(v.m[k])]]
    ELSE v

\* json.Marshal(models.ProcessedMessageData{...}), lines 324-338
Marshal(processedData) ==
    [json         |-> TRUE,
     messages     |-> [i \in 1..Len(processedData.Messages) |->
                          MarshalValue(processedData.Messages[i])],
     agent_id     |-> processedData.AgentID,
     processed_at |-> processedData.ProcessedAt,
     status       |-> processedData.Status]

\* the empty Go string held by `response` on every error path
EmptyString == [json |-> FALSE]

(***************************************************************************)
(* Inputs                                                                  *)
(***************************************************************************)
SupportedProvider == "google_agent_engine"
Providers == {SupportedProvider, "letta"}
UserNumbers == {"5521"}

PlainText == <<"o", "i">>
Messages ==
    {PlainText, <<"V", ".", "M", "p", "3">>, <<"v", ".", "m", "p", "4">>,
     <<"v", ".", "w", "m", "a">>}

\* what TranscribeAudio may return: (transcript, nil) or ("", error)
Transcripts == {<<>>, <<" ", "\n">>, NoContentSentinel, <<" ", "o", "i">>}
TranscribeOutcomes ==
    {[err |-> FALSE, text |-> t] : t \in Transcripts} \cup {[err |-> TRUE, text |-> <<>>]}

\* what FormatForWhatsApp may return
FormatOutcomes == {[err |-> FALSE, text |-> "*fmt*"], [err |-> TRUE, text |-> ""]}

\* what generateStepID and time.Now may return
StepIDs == {"0a0a", "0b0b"}
Timestamps == {"T1"}

\* engine messages used in replies
HumanMsg == Map([type |-> Str("human"), content |-> Str("hello"), id |-> Str("h1")])
AiMsg ==
    Map([type |-> Str("ai"), content |-> Str("hi there"), id |-> Str("a1"),
         response_metadata |->
             Map([model_name |-> Str("gemini"),
                  usage_metadata |->
                      Map([input_tokens |-> Float64(3), output_tokens |-> Float64(4),
                           total_tokens |-> Float64(7),
                           output_token_details |-> Map([reasoning |-> Float64(2)])])])])
ToolMsg == Map([type |-> Str("tool"), content |-> Str("42"), tool_call_id |-> Str("c1")])

\* JSON documents the engine may send as the reply content
ReplyDocs ==
    {Nil, Str("text"), Map(EmptyMap), Map([output |-> Str("text")]), Map([output |-> Nil]),
     Map([output |-> Map(EmptyMap)])}
      \cup {Map([output |-> Map([messages |-> ms])]) :
               ms \in {Nil, HumanMsg, Str("text"), List(<<>>), List(<<HumanMsg, AiMsg>>),
                       List(<<Str("text"), ToolMsg>>)}}

\* reply content as a token sequence: whitespace tokens, a JSON document, or junk
Ws(c) == [k |-> "ws", c |-> c]
Doc(v) == [k |-> "doc", v |-> v]
Junk == [k |-> "junk"]
Contents ==
    {<<Doc(d)>> : d \in ReplyDocs}
      \cup {<<Junk>>, <<>>, <<Ws("\n"), Doc(Map([output |-> Map(EmptyMap)])), Ws(" "), Ws("\r")>>,
            <<Doc(Map(EmptyMap)), Ws("\n"), Junk>>}

(***************************************************************************)
(* Reply parsing, lines 270-296                                            *)
(***************************************************************************)
\* strings.ReplaceAll(content, "\n"/"\r", "") over the tokens
RECURSIVE RemoveWs(_, _)
RemoveWs(content, c) ==
    IF content = <<>> THEN <<>>
    ELSE IF Head(content).k = "ws" /\ Head(content).c = c THEN RemoveWs(Tail(content), c)
    ELSE <<Head(content)>> \o RemoveWs(Tail(content), c)

IsWsToken(tok) == tok.k = "ws"

RECURSIVE TrimTokens(_)
TrimTokens(content) ==
    IF content # <<>> /\ IsWsToken(Head(content)) THEN TrimTokens(Tail(content))
    ELSE IF content # <<>> /\ IsWsToken(content[Len(content)])
         THEN TrimTokens(SubSeq(content, 1, Len(content) - 1))
    ELSE content

\* lines 271-273
Clean(content) == TrimTokens(RemoveWs(RemoveWs(content, "\n"), "\r"))

\* json.Unmarshal into map[string]interface{}: one JSON document, an object or null
UnmarshalOk(cleaned) ==
    LET toks == SelectSeq(cleaned, LAMBDA tok : ~IsWsToken(tok)) IN
    /\ Len(toks) = 1
    /\ toks[1].k = "doc"
    /\ toks[1].v.t \in {"map", "nil"}

\* the parsed map (a nil map for the JSON document null)
Unmarshal(cleaned) ==
    LET d == SelectSeq(cleaned, LAMBDA tok : ~IsWsToken(tok))[1].v IN
    IF d.t = "map" THEN d.m ELSE EmptyMap

\* the error of lines 275-296, or "nil"
ParseError(content) ==
    LET cleaned == Clean(content) IN
    IF ~UnmarshalOk(cleaned) THEN "failed to parse AI response JSON"
    ELSE IF "output" \notin DOMAIN Unmarshal(cleaned) THEN "missing 'output' field"
    ELSE IF Unmarshal(cleaned)["output"].t # "map" THEN "'output' is not an object"
    ELSE "nil"

\* outputMap, when ParseError is "nil"
OutputMap(content) == Unmarshal(Clean(content))["output"].m

\* lines 298-306
ExtractMessages(outputMap, stepIDs, now) ==
    IF "messages" \in DOMAIN outputMap
    THEN transformGoogleAgentMessages(outputMap["messages"], stepIDs, now)
    ELSE <<>>

\* lines 308-318
StampAgentID(messages, agentID) ==
    IF Len(messages) > 0
       /\ messages[Len(messages)].t = "map"
       /\ "message_type" \in DOMAIN messages[Len(messages)].m
       /\ messages[Len(messages)].m["message_type"] = Str("usage_statistics")
    THEN [messages EXCEPT ![Len(messages)] = Map(Put(@.m, "agent_id", Str(agentID)))]
    ELSE messages

\* number of generateStepID slots the reply needs: one per entry of the list walked
Slots(outputMap) ==
    IF "messages" \notin DOMAIN outputMap \/ outputMap["messages"].t = "nil" THEN 0
    ELSE Len(MessagesList(outputMap["messages"]))

(***************************************************************************)
(* The handler                                                             *)
(***************************************************************************)
NoMsg == [ID |-> 0, UserNumber |-> "", Message |-> <<>>, Provider |-> ""]
NoTranscript == [set |-> FALSE]

\* the handler's per-delivery variables before it has run
Fresh ==
    /\ queueMsg = NoMsg
    /\ ctxCanceled = FALSE
    /\ message = <<>>
    /\ transcriptText = NoTranscript
    /\ threadID = ""
    /\ transformedMessages = <<>>
    /\ response = EmptyString
    /\ err = "nil"
    /\ calls = <<>>
    /\ writes = <<>>
    /\ ret = "pending"

Init ==
    /\ deps \in [GoogleAgentService : BOOLEAN, TranscribeService : BOOLEAN,
                 MessageFormatter : BOOLEAN, OTelWorkerWrapper : BOOLEAN]
    /\ pc = "idle"
    /\ delivery = [bodyOk |-> FALSE, msg |-> NoMsg]
    /\ Fresh
    /\ statusLog = [id \in 1..MaxDeliveries |-> <<>>]
    /\ delivered = 0
    /\ fnArg = Nil
    /\ fnRes = Nil

fnVars == <<fnArg, fnRes>>

\* the queue hands the next delivery to the handler (line 96); ids are fresh
Deliver ==
    /\ pc \in {"idle", "returned"}
    /\ delivered < MaxDeliveries
    /\ \E bodyOk \in BOOLEAN, u \in UserNumbers, m \in Messages, p \in Providers :
          delivery' = [bodyOk |-> bodyOk,
                       msg |-> [ID |-> delivered + 1, UserNumber |-> u,
                                Message |-> m, Provider |-> p]]
    /\ delivered' = delivered + 1
    /\ pc' = "unmarshal"
    /\ queueMsg' = NoMsg
    /\ ctxCanceled' = FALSE
    /\ message' = <<>>
    /\ transcriptText' = NoTranscript
    /\ threadID' = ""
    /\ transformedMessages' = <<>>
    /\ response' = EmptyString
    /\ err' = "nil"
    /\ calls' = <<>>
    /\ writes' = <<>>
    /\ ret' = "pending"
    /\ UNCHANGED <<deps, statusLog, fnVars>>

\* ParseBody with the "processing" status write left out
ParseBody_SkipsProcessing ==
    /\ pc = "unmarshal"
    /\ IF delivery.bodyOk
       THEN /\ queueMsg' = delivery.msg
            /\ pc' = "process"
            /\ ret' = ret
       ELSE /\ queueMsg' = queueMsg
            /\ pc' = "returned"
            /\ ret' = "error"
    /\ UNCHANGED <<deps, delivery, ctxCanceled, message, transcriptText, threadID,
                   transformedMessages, response, err, calls, writes, statusLog,
                   delivered, fnVars>>

\* lines 105-118
ParseBody ==
    /\ pc = "unmarshal"
    /\ IF delivery.bodyOk
       THEN /\ queueMsg' = delivery.msg
            /\ pc' = "set_processing"
            /\ ret' = ret
       ELSE /\ queueMsg' = queueMsg
            /\ pc' = "returned"
            /\ ret' = "error"
    /\ UNCHANGED <<deps, delivery, ctxCanceled, message, transcriptText, threadID,
                   transformedMessages, response, err, calls, writes, statusLog,
                   delivered, fnVars>>

\* a store write issued under the handler's ctx, and whether it succeeded
StoreWrite(op, value, ok) == [op |-> op, id |-> queueMsg.ID, value |-> value, ok |-> ok]

\* RedisService.SetTaskStatus(ctx, queueMsg.ID, status, ttl)
SetTaskStatus(status, ok) ==
    /\ writes' = Append(writes, StoreWrite("SetTaskStatus", status, ok))
    /\ statusLog' = [statusLog EXCEPT ![queueMsg.ID] = Append(@, status)]

\* lines 120-123
SetProcessing ==
    /\ pc = "set_processing"
    /\ \E ok \in BOOLEAN : SetTaskStatus("processing", ok)
    /\ pc' = "process"
    /\ UNCHANGED <<deps, delivery, queueMsg, ctxCanceled, message, transcriptText, threadID,
                   transformedMessages, response, err, calls, ret, delivered, fnVars>>

\* OTelWorkerWrapper.WrapWorkerTask: runs the task once and returns its error
WrapWorkerTask(taskErr) == taskErr

\* lines 129-138: the value the handler's `err` gets when processUserMessage returns e
HandlerErr(e) == IF deps.OTelWorkerWrapper THEN WrapWorkerTask(e) ELSE e

\* ProcessReturns with the test of line 140 inverted
ProcessReturns_Inverted(resp, e) ==
    /\ response' = resp
    /\ err' = HandlerErr(e)
    /\ pc' = IF HandlerErr(e) = "nil" THEN "store_error" ELSE "store_result"

\* processUserMessage returns ("", e), and the branch of line 140
ProcessReturns(resp, e) ==
    /\ response' = resp
    /\ err' = HandlerErr(e)
    /\ pc' = IF HandlerErr(e) # "nil" THEN "store_error" ELSE "store_result"

\* a capability call: its arguments, what it returned, and the context it was given
\* ("delivery": the handler's ctx or one derived from it, "background":
\* context.Background(), "none": the call takes no context)
Call(op, arg, res, c) == [op |-> op, arg |-> arg, res |-> res, ctx |-> c]

\* ProcessStart without the provider check of lines 200-204
ProcessStart_NoProviderCheck ==
    /\ pc = "process"
    /\ IF ~deps.GoogleAgentService
       THEN /\ ProcessReturns(EmptyString, "google Agent Engine service is required but not available")
            /\ message' = message
       ELSE IF isAudioURL(queueMsg.Message)
       THEN IF ~deps.TranscribeService
            THEN /\ message' = Fallback
                 /\ pc' = "validate"
                 /\ UNCHANGED <<response, err>>
            ELSE /\ message' = queueMsg.Message
                 /\ pc' = "transcribe"
                 /\ UNCHANGED <<response, err>>
       ELSE /\ message' = queueMsg.Message
            /\ pc' = "validate"
            /\ UNCHANGED <<response, err>>
    /\ UNCHANGED <<deps, delivery, queueMsg, ctxCanceled, transcriptText, threadID,
                   transformedMessages, calls, writes, statusLog, ret, delivered, fnVars>>

\* lines 200-224: provider and engine checks, audio detection
ProcessStart ==
    /\ pc = "process"
    /\ IF queueMsg.Provider # SupportedProvider
       THEN /\ ProcessReturns(EmptyString, "unsupported provider")
            /\ message' = message
       ELSE IF ~deps.GoogleAgentService
       THEN /\ ProcessReturns(EmptyString, "google Agent Engine service is required but not available")
            /\ message' = message
       ELSE IF isAudioURL(queueMsg.Message)
       THEN IF ~deps.TranscribeService
            THEN /\ message' = Fallback
                 /\ pc' = "validate"
                 /\ UNCHANGED <<response, err>>
            ELSE /\ message' = queueMsg.Message
                 /\ pc' = "transcribe"
                 /\ UNCHANGED <<response, err>>
       ELSE /\ message' = queueMsg.Message
            /\ pc' = "validate"
            /\ UNCHANGED <<response, err>>
    /\ UNCHANGED <<deps, delivery, queueMsg, ctxCanceled, transcriptText, threadID,
                   transformedMessages, calls, writes, statusLog, ret, delivered, fnVars>>

\* lines 226-239
Transcribe ==
    /\ pc = "transcribe"
    /\ \E o \in TranscribeOutcomes :
          /\ calls' = Append(calls, Call("TranscribeAudio", message, o, "delivery"))
          /\ IF ~o.err /\ UsefulTranscript(o.text)
             THEN /\ transcriptText' = [set |-> TRUE, text |-> o.text]
                  /\ message' = o.text
             ELSE /\ transcriptText' = transcriptText
                  /\ message' = Fallback
    /\ pc' = "validate"
    /\ UNCHANGED <<deps, delivery, queueMsg, ctxCanceled, threadID, transformedMessages,
                   response, err, writes, statusLog, ret, delivered, fnVars>>

\* Validate handing the raw inbound text to the validator
Validate_RawText ==
    /\ pc = "validate"
    /\ IF deps.MessageFormatter
       THEN \E valid \in BOOLEAN :
               /\ calls' = Append(calls, Call("ValidateMessageContent", queueMsg.Message,
                                               valid, "none"))
               /\ IF valid
                  THEN pc' = "thread" /\ UNCHANGED <<response, err>>
                  ELSE ProcessReturns(EmptyString, "invalid message content")
       ELSE /\ calls' = calls
            /\ pc' = "thread"
            /\ UNCHANGED <<response, err>>
    /\ UNCHANGED <<deps, delivery, queueMsg, ctxCanceled, message, transcriptText, threadID,
                   transformedMessages, writes, statusLog, ret, delivered, fnVars>>

\* lines 242-248
Validate ==
    /\ pc = "validate"
    /\ IF deps.MessageFormatter
       THEN \E valid \in BOOLEAN :
               /\ calls' = Append(calls, Call("ValidateMessageContent", message, valid, "none"))
               /\ IF valid
                  THEN pc' = "thread" /\ UNCHANGED <<response, err>>
                  ELSE ProcessReturns(EmptyString, "invalid message content")
       ELSE /\ calls' = calls
            /\ pc' = "thread"
            /\ UNCHANGED <<response, err>>
    /\ UNCHANGED <<deps, delivery, queueMsg, ctxCanceled, message, transcriptText, threadID,
                   transformedMessages, writes, statusLog, ret, delivered, fnVars>>

\* lines 250-257
GetOrCreateThread ==
    /\ pc = "thread"
    /\ \E ok \in BOOLEAN :
          /\ calls' = Append(calls, Call("GetOrCreateThread", queueMsg.UserNumber, ok, "delivery"))
          /\ IF ok
             THEN /\ threadID' = "thread-" \o queueMsg.UserNumber
                  /\ pc' = "send"
                  /\ UNCHANGED <<response, err>>
             ELSE /\ threadID' = threadID
                  /\ ProcessReturns(EmptyString, "failed to get thread")
    /\ UNCHANGED <<deps, delivery, queueMsg, ctxCanceled, message, transcriptText,
                   transformedMessages, writes, statusLog, ret, delivered, fnVars>>

\* lines 259-318: the engine call, parsing, transformation and agent-id stamping
SendMessage ==
    /\ pc = "send"
    /\ \/ /\ calls' = Append(calls, Call("SendMessage", [threadID |-> threadID, text |-> message],
                                          [err |-> TRUE, content |-> <<>>], "delivery"))
          /\ ProcessReturns(EmptyString, "failed to get AI response")
          /\ transformedMessages' = transformedMessages
       \/ \E content \in Contents :
             /\ calls' = Append(calls, Call("SendMessage", [threadID |-> threadID, text |-> message],
                                             [err |-> FALSE, content |-> content], "delivery"))
             /\ IF ParseError(content) # "nil"
                THEN /\ ProcessReturns(EmptyString, ParseError(content))
                     /\ transformedMessages' = transformedMessages
                ELSE \E stepIDs \in [1..Slots(OutputMap(content)) -> StepIDs], now \in Timestamps :
                        /\ transformedMessages' =
                              StampAgentID(ExtractMessages(OutputMap(content), stepIDs, now),
                                           "user_" \o queueMsg.UserNumber)
                        /\ pc' = "format"
                        /\ UNCHANGED <<response, err>>
    /\ UNCHANGED <<deps, delivery, queueMsg, ctxCanceled, message, transcriptText, threadID,
                   writes, statusLog, ret, delivered, fnVars>>

\* the FormatForWhatsApp calls of lines 556-578, in order
RECURSIVE FormatCalls(_, _)
FormatCalls(messages, outcomes) ==
    IF messages = <<>> THEN <<>>
    ELSE (IF Formattable(Head(messages))
          THEN <<Call("FormatForWhatsApp", Head(messages).m["content"].s, Head(outcomes),
                      "background")>>
          ELSE <<>>) \o FormatCalls(Tail(messages), Tail(outcomes))

\* lines 320-350: formatting, assembling and serializing the artifact
Format ==
    /\ pc = "format"
    /\ \E outcomes \in IF deps.MessageFormatter
                       THEN [1..Len(transformedMessages) -> FormatOutcomes]
                       ELSE {<<>>} :
          LET formatted == applyWhatsAppFormattingToMessages(deps.MessageFormatter,
                                                             transformedMessages, outcomes)
          IN  /\ transformedMessages' = formatted
              /\ ProcessReturns(Marshal([Messages    |-> formatted,
                                         AgentID     |-> "user_" \o queueMsg.UserNumber,
                                         ProcessedAt |-> queueMsg.ID,
                                         Status      |-> "done"]), "nil")
              /\ calls' = IF deps.MessageFormatter
                          THEN calls \o FormatCalls(transformedMessages, outcomes)
                          ELSE calls
    /\ UNCHANGED <<deps, delivery, queueMsg, ctxCanceled, message, transcriptText, threadID,
                   writes, statusLog, ret, delivered, fnVars>>

handlerLocals == <<deps, delivery, queueMsg, ctxCanceled, message, transcriptText, threadID,
                   transformedMessages, response, err, calls, delivered, fnVars>>

\* lines 143-147
StoreError ==
    /\ pc = "store_error"
    /\ \E ok \in BOOLEAN : writes' = Append(writes, StoreWrite("Set", err, ok))
    /\ pc' = "set_failed"
    /\ UNCHANGED <<handlerLocals, statusLog, ret>>

\* SetFailed handing the processing error back to the queue layer
SetFailed_ReturnsErr ==
    /\ pc = "set_failed"
    /\ \E ok \in BOOLEAN : SetTaskStatus("failed", ok)
    /\ ret' = "error"
    /\ pc' = "returned"
    /\ UNCHANGED handlerLocals

\* lines 149-155
SetFailed ==
    /\ pc = "set_failed"
    /\ \E ok \in BOOLEAN : SetTaskStatus("failed", ok)
    /\ ret' = "nil"
    /\ pc' = "returned"
    /\ UNCHANGED handlerLocals

\* StoreResult giving up on the delivery when the result write fails
StoreResult_AbortsOnFailure ==
    /\ pc = "store_result"
    /\ \E ok \in BOOLEAN :
          /\ writes' = Append(writes, StoreWrite("SetTaskResult", response, ok))
          /\ pc' = IF ok THEN "set_completed" ELSE "returned"
          /\ ret' = IF ok THEN ret ELSE "nil"
    /\ UNCHANGED <<handlerLocals, statusLog>>

\* lines 158-162
StoreResult ==
    /\ pc = "store_result"
    /\ \E ok \in BOOLEAN : writes' = Append(writes, StoreWrite("SetTaskResult", response, ok))
    /\ pc' = "set_completed"
    /\ UNCHANGED <<handlerLocals, statusLog, ret>>

\* lines 164-172
SetCompleted ==
    /\ pc = "set_completed"
    /\ \E ok \in BOOLEAN : SetTaskStatus("completed", ok)
    /\ ret' = "nil"
    /\ pc' = "returned"
    /\ UNCHANGED handlerLocals

\* the caller cancels the per-delivery context while the handler runs
Cancel ==
    /\ pc \notin {"idle", "returned"}
    /\ ~ctxCanceled
    /\ ctxCanceled' = TRUE
    /\ UNCHANGED <<deps, pc, delivery, queueMsg, message, transcriptText, threadID,
                   transformedMessages, response, err, calls, writes, statusLog, ret,
                   delivered, fnVars>>

(***************************************************************************)
(* extractUsageMetadata on its own                                         *)
(***************************************************************************)
UsageFields == {"input_tokens", "output_tokens", "total_tokens", "reasoning", "cache_read"}
NumberKinds == {"absent", "int", "float64"}

\* a distinct count per field, so that a projection under the wrong key shows
TokenCount(field) ==
    CASE field = "input_tokens" -> 11
      [] field = "output_tokens" -> 12
      [] field = "total_tokens" -> 23
      [] field = "reasoning" -> 4
      [] field = "cache_read" -> 5

Number(kind, n) == [t |-> kind, n |-> n]

\* a usage_metadata object holding each field as kinds[field] says
UsageMap(kinds) ==
    LET top == {f \in {"input_tokens", "output_tokens", "total_tokens"} : kinds[f] # "absent"}
        nested == (IF kinds["reasoning"] # "absent" THEN {"output_token_details"} ELSE {})
                  \cup (IF kinds["cache_read"] # "absent" THEN {"input_token_details"} ELSE {})
    IN  [k \in top \cup nested |->
            IF k = "output_token_details"
            THEN Map([reasoning |-> Number(kinds["reasoning"], TokenCount("reasoning"))])
            ELSE IF k = "input_token_details"
            THEN Map([cache_read |-> Number(kinds["cache_read"], TokenCount("cache_read"))])
            ELSE Number(kinds[k], TokenCount(k))]

\* an engine message carrying that usage_metadata
UsageMsg(kinds) ==
    Map([type |-> Str("ai"), content |-> Str("hi there"),
         response_metadata |-> Map([usage_metadata |-> Map(UsageMap(kinds))])])

InitUsage ==
    /\ deps = [GoogleAgentService |-> TRUE, TranscribeService |-> TRUE,
               MessageFormatter |-> TRUE, OTelWorkerWrapper |-> FALSE]
    /\ pc = "fn_ready"
    /\ delivery = [bodyOk |-> FALSE, msg |-> NoMsg]
    /\ Fresh
    /\ statusLog = [id \in 1..MaxDeliveries |-> <<>>]
    /\ delivered = 0
    /\ fnArg \in {UsageMsg(kinds) : kinds \in [UsageFields -> NumberKinds]}
    /\ fnRes = Nil

\* one application of extractUsageMetadata (line 390)
ExtractUsage ==
    /\ pc = "fn_ready"
    /\ fnRes' = extractUsageMetadata(fnArg.m)
    /\ pc' = "fn_done"
    /\ UNCHANGED <<deps, delivery, queueMsg, ctxCanceled, message, transcriptText, threadID,
                   transformedMessages, response, err, calls, writes, statusLog, ret,
                   delivered, fnArg>>

NextUsage == ExtractUsage

SpecUsage == InitUsage /\ [][NextUsage]_vars

(***************************************************************************)
(* applyWhatsAppFormattingToMessages on its own                            *)
(***************************************************************************)
\* engine messages whose content is empty, missing, or not a string
EmptyContentMsg == Map([type |-> Str("ai"), content |-> Str(""), id |-> Str("a2")])
NoContentMsg == Map([type |-> Str("ai"), id |-> Str("a3")])
PartsContentMsg ==
    Map([type |-> Str("ai"), content |-> List(<<Str("part")>>), id |-> Str("a4")])

\* transformed messages the gate may be handed, the usage-statistics record included
FormatSubjects ==
    {TransformEntry(e.m, "0a0a") :
        e \in {HumanMsg, AiMsg, ToolMsg, EmptyContentMsg, NoContentMsg, PartsContentMsg}}
      \cup {UsageStats(1, "T1")}

\* what FormatForWhatsApp may return: (text, nil) or (text, error)
FormatResults ==
    {[err |-> e, text |-> t] : e \in BOOLEAN, t \in {"*fmt*", ""}}

InitFormat ==
    /\ deps = [GoogleAgentService |-> TRUE, TranscribeService |-> TRUE,
               MessageFormatter |-> TRUE, OTelWorkerWrapper |-> FALSE]
    /\ pc = "fmt_ready"
    /\ delivery = [bodyOk |-> FALSE, msg |-> NoMsg]
    /\ Fresh
    /\ statusLog = [id \in 1..MaxDeliveries |-> <<>>]
    /\ delivered = 0
    /\ \E n \in 0..MaxMsgs :
          fnArg \in [messageFormatter : BOOLEAN,
                     messages : [1..n -> FormatSubjects],
                     outcomes : [1..n -> FormatResults]]
    /\ fnRes = Nil

\* one application of applyWhatsAppFormattingToMessages (line 321)
ApplyFormatting ==
    /\ pc = "fmt_ready"
    /\ fnRes' = List(applyWhatsAppFormattingToMessages(fnArg.messageFormatter,
                                                       fnArg.messages, fnArg.outcomes))
    /\ pc' = "fmt_done"
    /\ UNCHANGED <<deps, delivery, queueMsg, ctxCanceled, message, transcriptText, threadID,
                   transformedMessages, response, err, calls, writes, statusLog, ret,
                   delivered, fnArg>>

NextFormat == ApplyFormatting

SpecFormat == InitFormat /\ [][NextFormat]_vars

(***************************************************************************)
(* transformGoogleAgentMessages on a single engine message                 *)
(***************************************************************************)
\* marks a key the engine message does not have
Absent == [t |-> "absent"]

SearchCall ==
    Map([name |-> Str("search"), args |-> Map([q |-> Str("rio")]), id |-> Str("c1")])
ClockCall == Map([name |-> Str("clock"), args |-> Map(EmptyMap), id |-> Str("c2")])

\* what each key of an engine message may hold
EntryChoices ==
    [type         : {Absent, Str("human"), Str("ai"), Str("tool"), Str("system"), Float64(1)},
     tool_calls   : {Absent, Nil, List(<<>>), List(<<SearchCall>>),
                     List(<<ClockCall, SearchCall>>), List(<<Str("search")>>)},
     name         : {Absent, Nil, Str("search")},
     content      : {Absent, Str("42")},
     tool_call_id : {Absent, Str("c1")}]

EntryKeys == {"type", "tool_calls", "name", "content", "tool_call_id"}

\* the engine message holding the chosen keys
Entry(choice) == Map([k \in {x \in EntryKeys : choice[x] # Absent} |-> choice[k]])

InitTransform ==
    /\ deps = [GoogleAgentService |-> TRUE, TranscribeService |-> TRUE,
               MessageFormatter |-> TRUE, OTelWorkerWrapper |-> FALSE]
    /\ pc = "tr_ready"
    /\ delivery = [bodyOk |-> FALSE, msg |-> NoMsg]
    /\ Fresh
    /\ statusLog = [id \in 1..MaxDeliveries |-> <<>>]
    /\ delivered = 0
    /\ fnArg \in {Entry(choice) : choice \in EntryChoices}
    /\ fnRes = Nil

\* one application of transformGoogleAgentMessages to a single object (line 301)
TransformSingle ==
    /\ pc = "tr_ready"
    /\ \E stepID \in StepIDs, now \in Timestamps :
          fnRes' = List(transformGoogleAgentMessages(fnArg, <<stepID>>, now))
    /\ pc' = "tr_done"
    /\ UNCHANGED <<deps, delivery, queueMsg, ctxCanceled, message, transcriptText, threadID,
                   transformedMessages, response, err, calls, writes, statusLog, ret,
                   delivered, fnArg>>

NextTransform == TransformSingle

SpecTransform == InitTransform /\ [][NextTransform]_vars

Next ==
    \/ Deliver
    \/ ParseBody
    \/ SetProcessing
    \/ ProcessStart
    \/ Transcribe
    \/ Validate
    \/ GetOrCreateThread
    \/ SendMessage
    \/ Format
    \/ StoreError
    \/ SetFailed
    \/ StoreResult
    \/ SetCompleted
    \/ Cancel

Spec == Init /\ [][Next]_vars

(***************************************************************************)
(* Properties                                                              *)
(***************************************************************************)
IsStatus(w, status) == w.op = "SetTaskStatus" /\ w.value = status
IsTerminal(w) == IsStatus(w, "completed") \/ IsStatus(w, "failed")
IsEngineCall(c) == c.op \in {"GetOrCreateThread", "SendMessage"}
Returned == pc = "returned"

\* C1: a delivery issues at most one terminal status write and at most one
\* result write, and once the handler has returned every result write, failed
\* or not, is followed by a "completed" status write.
C1_OneTerminalOneResult ==
    /\ Cardinality({i \in DOMAIN writes : IsTerminal(writes[i])}) <= 1
    /\ Cardinality({i \in DOMAIN writes : writes[i].op = "SetTaskResult"}) <= 1
    /\ Returned =>
          \A i \in DOMAIN writes :
             writes[i].op = "SetTaskResult" =>
                \E j \in DOMAIN writes : j > i /\ IsStatus(writes[j], "completed")

\* C1 witness: the result write failed and "completed" was still written
C1_Witness ==
    /\ Returned
    /\ \E i, j \in DOMAIN writes :
          /\ i < j
          /\ writes[i].op = "SetTaskResult" /\ ~writes[i].ok
          /\ IsStatus(writes[j], "completed")

C3_ErrorOnlyOnMalformedBody ==
    Returned => /\ ret \in {"nil", "error"}
                /\ ret = "error" <=> ~delivery.bodyOk

\* C3 witness: a traced delivery whose engine reply did not parse and whose
\* error-key write failed returned nil
C3_Witness ==
    /\ Returned
    /\ deps.OTelWorkerWrapper
    /\ err = "failed to parse AI response JSON"
    /\ \E i \in DOMAIN writes : writes[i].op = "Set" /\ ~writes[i].ok
    /\ ret = "nil"

\* the store writes of the delivery as (operation, value) pairs
WriteOps == [i \in DOMAIN writes |-> <<writes[i].op, writes[i].value>>]

\* C4: when processUserMessage returned an error the handler wrote the error
\* text and "failed" and no result; when it succeeded the handler wrote the
\* serialized result and "completed" and neither the error key nor "failed";
\* an engine reply that does not parse makes processUserMessage return an error.
C4_WritesFollowOutcome ==
    /\ (Returned /\ delivery.bodyOk) =>
          IF err # "nil"
          THEN /\ WriteOps = << <<"SetTaskStatus", "processing">>, <<"Set", err>>,
                                <<"SetTaskStatus", "failed">> >>
               /\ response = EmptyString
          ELSE /\ WriteOps = << <<"SetTaskStatus", "processing">>,
                                <<"SetTaskResult", response>>,
                                <<"SetTaskStatus", "completed">> >>
               /\ response.json
    /\ \A i \in DOMAIN calls :
          (calls[i].op = "SendMessage" /\ ~calls[i].res.err) =>
             LET parseErr == ParseError(calls[i].res.content) IN
             parseErr # "nil" => err = parseErr

\* C4 witness: the engine reply lacked 'output'; error text and "failed" written
C4_Witness ==
    /\ Returned
    /\ err = "missing 'output' field"
    /\ Len(writes) = 3
    /\ writes[2].op = "Set"
    /\ IsStatus(writes[3], "failed")

\* C5: a delivery whose provider is not the supported one never calls the
\* engine capability, and once handled its last write is status "failed".
C5_UnsupportedProviderFails ==
    (queueMsg # NoMsg /\ queueMsg.Provider # SupportedProvider) =>
       /\ \A i \in DOMAIN calls : ~IsEngineCall(calls[i])
       /\ Returned => /\ writes # <<>>
                      /\ IsStatus(writes[Len(writes)], "failed")

\* C5 witness: an audio reference with an unsupported provider was failed while
\* every capability was configured
C5_Witness ==
    /\ Returned
    /\ queueMsg.Provider = "letta"
    /\ queueMsg.Message = <<"v", ".", "w", "m", "a">>
    /\ deps.GoogleAgentService /\ deps.TranscribeService
    /\ calls = <<>>
    /\ IsStatus(writes[Len(writes)], "failed")

\* the claim's audio reference: the text ends, ignoring case, with an audio extension
SameLetter(a, b) ==
    \/ a = b
    \/ \E i \in 1..Len(Upper) : (a = Upper[i] /\ b = Lower[i]) \/ (a = Lower[i] /\ b = Upper[i])
EndsWithAudioExtension(text) ==
    \E ext \in {<<".", "m", "p", "3">>, <<".", "w", "a", "v">>, <<".", "m", "4", "a">>,
                <<".", "a", "a", "c">>, <<".", "o", "g", "g">>,
                <<".", "f", "l", "a", "c">>, <<".", "w", "m", "a">>} :
       /\ Len(ext) <= Len(text)
       /\ \A k \in 1..Len(ext) : SameLetter(text[Len(text) - Len(ext) + k], ext[k])

\* the transcription result gives nothing to use
Unusable(o) ==
    \/ o.err
    \/ \A k \in DOMAIN o.text : IsSpace(o.text[k])
    \/ o.text = NoContentSentinel

\* calls[i] was given the text the audio gate must resolve the inbound message to
GivenResolvedText(i, text) ==
    IF ~EndsWithAudioExtension(queueMsg.Message)
    THEN /\ text = queueMsg.Message
         /\ \A j \in DOMAIN calls : calls[j].op # "TranscribeAudio"
    ELSE IF ~deps.TranscribeService
    THEN /\ text = Fallback
         /\ \A j \in DOMAIN calls : calls[j].op # "TranscribeAudio"
    ELSE \E j \in 1..(i - 1) :
            /\ calls[j].op = "TranscribeAudio"
            /\ calls[j].arg = queueMsg.Message
            /\ text = IF Unusable(calls[j].res) THEN Fallback ELSE calls[j].res.text

\* C6: the text given to SendMessage is the original text for a non-audio
\* message, the fallback literal for an audio reference whose transcription is
\* unavailable, failed, empty, whitespace-only or the sentinel, and the
\* transcript otherwise; the audio gate never fails the delivery: a supported
\* delivery reaches SendMessage unless validation or the thread lookup failed.
C6_EngineGetsResolvedText ==
    /\ \A i \in DOMAIN calls :
          calls[i].op = "SendMessage" => GivenResolvedText(i, calls[i].arg.text)
    /\ (/\ Returned /\ delivery.bodyOk
        /\ queueMsg.Provider = SupportedProvider /\ deps.GoogleAgentService
        /\ \A i \in DOMAIN calls :
              calls[i].op \in {"ValidateMessageContent", "GetOrCreateThread"} => calls[i].res)
       => \E i \in DOMAIN calls : calls[i].op = "SendMessage"

\* C6 witness: the transcription returned "" and the engine was sent "Ajuda"
C6_Witness ==
    \E i, j \in DOMAIN calls :
       /\ calls[i].op = "TranscribeAudio"
       /\ ~calls[i].res.err /\ calls[i].res.text = <<>>
       /\ calls[j].op = "SendMessage"
       /\ calls[j].arg.text = <<"A", "j", "u", "d", "a">>

\* C7: the validator is given the resolved text, before any engine call; when
\* it rejects, processUserMessage returns the validation error and no engine
\* call is made for the delivery; with a validator configured every engine call
\* follows an accepting validation.
C7_ValidationBeforeEngine ==
    /\ \A i \in DOMAIN calls :
          calls[i].op = "ValidateMessageContent" =>
             /\ GivenResolvedText(i, calls[i].arg)
             /\ \A j \in 1..(i - 1) : ~IsEngineCall(calls[j])
             /\ ~calls[i].res =>
                   /\ \A j \in DOMAIN calls : ~IsEngineCall(calls[j])
                   /\ err = "invalid message content"
                   /\ response = EmptyString
    /\ \A i \in DOMAIN calls :
          (IsEngineCall(calls[i]) /\ deps.MessageFormatter) =>
             \E j \in 1..(i - 1) : calls[j].op = "ValidateMessageContent" /\ calls[j].res

\* C7 witness: the validator rejected the fallback literal of an audio
\* reference and the delivery was failed without an engine call
C7_Witness ==
    /\ Returned
    /\ EndsWithAudioExtension(queueMsg.Message)
    /\ \E i \in DOMAIN calls :
          /\ calls[i].op = "ValidateMessageContent"
          /\ ~calls[i].res
          /\ calls[i].arg = Fallback
    /\ \A i \in DOMAIN calls : ~IsEngineCall(calls[i])
    /\ IsStatus(writes[Len(writes)], "failed")

IsUsageRecord(v) ==
    v.t = "map" /\ "message_type" \in DOMAIN v.m /\ v.m["message_type"] = Str("usage_statistics")

\* C8: every serialized artifact has exactly one usage-statistics record, in
\* last position, whose step_count is the number of messages before it and
\* whose agent_id is "user_" followed by the user key.
C8_UsageRecordLast ==
    response.json =>
       LET ms == response.messages IN
       /\ Len(ms) >= 1
       /\ \A i \in DOMAIN ms : IsUsageRecord(ms[i]) <=> i = Len(ms)
       /\ ms[Len(ms)].m["step_count"] = [t |-> "number", n |-> Len(ms) - 1]
       /\ ms[Len(ms)].m["agent_id"] = Str("user_" \o queueMsg.UserNumber)

\* the source value of a usage field in the engine message, Nil when missing
UsageSource(msg, field) ==
    LET usageMap == msg.m["response_metadata"].m["usage_metadata"].m IN
    IF field = "reasoning"
    THEN (IF "output_token_details" \in DOMAIN usageMap
          THEN usageMap["output_token_details"].m["reasoning"] ELSE Nil)
    ELSE IF field = "cache_read"
    THEN (IF "input_token_details" \in DOMAIN usageMap
          THEN usageMap["input_token_details"].m["cache_read"] ELSE Nil)
    ELSE Get(usageMap, field)

RenamedKey(field) ==
    CASE field = "input_tokens" -> "prompt_token_count"
      [] field = "output_tokens" -> "candidates_token_count"
      [] field = "total_tokens" -> "total_token_count"
      [] field = "reasoning" -> "thoughts_token_count"
      [] field = "cache_read" -> "cached_content_token_count"

\* C9: every numeric field of the source usage_metadata, integer or float,
\* appears in the projection under its renamed key as a float64 of that value.
C9_NumericFieldsProjectedAsFloat ==
    pc = "fn_done" =>
       /\ fnRes.t = "map"
       /\ \A field \in UsageFields :
             UsageSource(fnArg, field).t \in {"int", "float64"} =>
                /\ RenamedKey(field) \in DOMAIN fnRes.m
                /\ fnRes.m[RenamedKey(field)] = Float64(UsageSource(fnArg, field).n)

\* C10: once the per-delivery context is canceled no step of the handler
\* issues a store write, and no capability call is given a context other than
\* the per-delivery one.
C10_CancellationStopsWrites ==
    /\ [][ctxCanceled => Len(writes') <= Len(writes)]_vars
    /\ [](\A i \in DOMAIN calls : calls[i].ctx # "background")


\* C11: the content formatter gate returns as many messages, in the same
\* order, with the same keys and every field but content unchanged; content
\* is the formatter's output when the gate is configured, the content is a
\* non-empty string and formatting succeeded, and the original otherwise.
C11_OnlyContentChanges ==
    pc = "fmt_done" =>
       LET in == fnArg.messages
           out == fnRes.l
       IN  /\ Len(out) = Len(in)
           /\ \A i \in DOMAIN in :
                 /\ out[i].t = "map"
                 /\ DOMAIN out[i].m = DOMAIN in[i].m
                 /\ \A k \in DOMAIN in[i].m \ {"content"} : out[i].m[k] = in[i].m[k]
                 /\ "content" \in DOMAIN in[i].m =>
                       out[i].m["content"] =
                          IF /\ fnArg.messageFormatter
                             /\ in[i].m["content"].t = "string"
                             /\ in[i].m["content"].s # ""
                             /\ ~fnArg.outcomes[i].err
                          THEN Str(fnArg.outcomes[i].text)
                          ELSE in[i].m["content"]

\* C11 witness: of two messages the first was reformatted and the second,
\* whose formatting failed, kept its content
C11_Witness ==
    /\ pc = "fmt_done"
    /\ fnArg.messageFormatter
    /\ Len(fnRes.l) = 2
    /\ Get(fnArg.messages[1].m, "content") = Str("hello")
    /\ Get(fnRes.l[1].m, "content") = Str("*fmt*")
    /\ fnArg.outcomes[2].err
    /\ Get(fnArg.messages[2].m, "content") = Str("hi there")
    /\ Get(fnRes.l[2].m, "content") = Str("hi there")


\* a field of a tool-call entry, Nil when the entry has none
CallField(entry, key) == IF entry.t = "map" THEN Get(entry.m, key) ELSE Nil

\* C12: in the transformer's output every tool_call_message carries a
\* tool_call made of the name, args and id of the first tool-call entry, and
\* every tool_return_message carries tool_return equal to its content, status
\* "success", its tool_call_id, and null stdout and stderr.
C12_TypeSpecificFields ==
    pc = "tr_done" =>
       \A i \in DOMAIN fnRes.l :
          LET out == fnRes.l[i].m IN
          /\ out["message_type"] = Str("tool_call_message") =>
                /\ "tool_call" \in DOMAIN out
                /\ LET first == fnArg.m["tool_calls"].l[1] IN
                   out["tool_call"] = Map([name         |-> CallField(first, "name"),
                                           arguments    |-> CallField(first, "args"),
                                           tool_call_id |-> CallField(first, "id")])
          /\ out["message_type"] = Str("tool_return_message") =>
                /\ {"tool_return", "status", "tool_call_id", "stdout", "stderr"}
                      \subseteq DOMAIN out
                /\ out["tool_return"] = Get(fnArg.m, "content")
                /\ out["status"] = Str("success")
                /\ out["tool_call_id"] = Get(fnArg.m, "tool_call_id")
                /\ out["stdout"] = Nil
                /\ out["stderr"] = Nil

====
